---- MODULE Spec2Model ----
(***************************************************************************)
(* A model of jaxnerf's rendering pipeline (nerf/models.py: nerf,         *)
(* NerfModel.apply) and of its training driver (train.py: train_step,     *)
(* main).                                                                  *)
(*                                                                         *)
(* Arrays of floating point numbers are modelled by what the code does to  *)
(* them: their length and element positions (idx), the PRNG keys whose     *)
(* random draws reached them (rnd), and whether they hold a NaN (nan).     *)
(* PRNG keys are modelled by their derivation path: random.split(k, n)     *)
(* yields the n children of k.                                             *)
(***************************************************************************)
EXTENDS Integers, Sequences, FiniteSets, TLC

(* ------------------------------ bounds --------------------------------- *)

\* Largest num_coarse_samples explored.
MaxCoarse == 3
\* Largest num_fine_samples explored.
MaxFine == 1
\* Calls of the model (train steps and test renders) explored per run.
MaxCalls == 2

(* ------------------------------ PRNG keys ------------------------------ *)

\* No key: the value of a key variable that has not been assigned.
NoKey == <<>>

\* random.PRNGKey(seed): a root of the derivation tree.
PRNGKey(seed) == << <<0, seed>> >>

\* random.split(k, num): the num children of k.  The children of a split in
\* num parts differ from those of a split in another number of parts.
Split(k, num) == [i \in 1..num |-> Append(k, <<num, i - 1>>)]

\* random.split(k): the default split, in two.
Split2(k) == Split(k, 2)

(* --------------------------- python slicing ---------------------------- *)

Min(a, b) == IF a < b THEN a ELSE b
Max(a, b) == IF a > b THEN a ELSE b

\* A python slice bound i (negative: counted from the end) on a length n.
SliceBound(i, n) == IF i < 0 THEN Max(n + i, 0) ELSE Min(i, n)

\* s[start:stop] for a sequence s (0-based bounds, as in python).
PySlice(s, start, stop) ==
  LET lo == SliceBound(start, Len(s))
      hi == SliceBound(stop, Len(s))
  IN IF lo < hi THEN SubSeq(s, lo + 1, hi) ELSE <<>>

\* s[start:]
PySliceFrom(s, start) ==
  LET lo == SliceBound(start, Len(s))
  IN IF lo < Len(s) THEN SubSeq(s, lo + 1, Len(s)) ELSE <<>>

(* ------------------------------- arrays -------------------------------- *)

\* An array of n elements made by `src`.
Arr(src, n, rnd, nan) ==
  [src |-> src, idx |-> [i \in 1..n |-> i], rnd |-> rnd, nan |-> nan]

\* A local of apply that has not been assigned yet.
Undefined == Arr("undefined", 0, {}, FALSE)

(* ----------------------------- activations ----------------------------- *)

\* The activation names a configuration may choose (attributes of flax.nn).
Activations == {"sigmoid", "relu", "tanh"}

\* The probe x of nerf(): +-exp(linspace(-90, 90)) in float32, which runs
\* from -inf over small values to +inf.  In thousandths; "inf" is 10^6.
ProbeX == {-1000000, -1000, 1000, 1000000}

\* getattr(nn, name)(x), in thousandths, on the probe points.
Activation(name, x) ==
  CASE name = "sigmoid" ->
         (CASE x = -1000000 -> 0 [] x = -1000 -> 269
            [] x = 1000 -> 731 [] OTHER -> 1000)
    [] name = "relu" -> Max(x, 0)
    [] OTHER ->
         (CASE x = -1000000 -> -1000 [] x = -1000 -> -762
            [] x = 1000 -> 762 [] OTHER -> 1000)

(* ------------------------------- rays ---------------------------------- *)

\* Ray directions explored (integer norms, one of them zero).
Dirs == {<<0, 0, 0>>, <<3, 4, 0>>}

\* The ray batches explored: one ray, 6 wide (origin, direction), or 9 wide
\* (origin, ndc direction, view direction) as the llff dataset gives them.
RaySet ==
  {<<0, 0, 0>> \o d : d \in Dirs}
    \cup {<<0, 0, 0, 0, 0, 1>> \o v : v \in {<<0, 0, 0>>, <<0, 2, 0>>}}

\* The keys render_image may hand to test_render_fn.
EvalKeys == {PRNGKey(1), PRNGKey(2)}

(* --------------- model_utils (modelled from the specification) --------- *)

\* model_utils.sample_along_rays: num_samples depths per ray (z_vals) and the
\* points at them (samples), jittered with draws from key only when randomized.
sample_along_rays(key, rays, num_samples, randomized) ==
  LET rnd == IF randomized THEN {key} ELSE {}
  IN [z_vals |-> Arr("z_coarse", num_samples, rnd, FALSE),
      samples |-> Arr("samples_coarse", num_samples, rnd, FALSE)]

\* model_utils.posenc: the encoding keeps length, randomness and NaNs.
posenc(x) == [x EXCEPT !.src = "posenc_" \o x.src]

\* model_utils.MLP: one (raw_rgb, raw_sigma) per sample; a NaN in the view
\* direction condition, when one is given, reaches every output.
MLP(samples, given, viewdirs) ==
  LET nan == samples.nan \/ (given /\ viewdirs.nan)
  IN [raw_rgb |-> [samples EXCEPT !.src = "raw_rgb", !.nan = nan],
      raw_sigma |-> [samples EXCEPT !.src = "raw_sigma", !.nan = nan]]

\* model_utils.add_gaussian_noise: perturbs with draws from key only when
\* randomized (and the standard deviation is positive); identity otherwise.
add_gaussian_noise(key, raw, noise_std, randomized) ==
  IF randomized /\ noise_std > 0
    THEN [raw EXCEPT !.rnd = raw.rnd \cup {key}]
    ELSE raw

\* model_utils.volumetric_rendering: one weight per depth sample, and the
\* composited (rgb, disp, acc) of the ray.
volumetric_rendering(rgb, sigma, z) ==
  LET rnd == rgb.rnd \cup sigma.rnd \cup z.rnd
      nan == rgb.nan \/ sigma.nan \/ z.nan
      Out(o) == [out |-> o, z |-> z.src, n |-> Len(z.idx), rnd |-> rnd, nan |-> nan]
  IN [comp_rgb |-> Out("rgb"), disp |-> Out("disp"), acc |-> Out("acc"),
      weights |-> [src |-> "weights_" \o z.src, idx |-> [i \in 1..Len(z.idx) |-> i],
                   rnd |-> rnd, nan |-> nan]]

\* model_utils.sample_pdf: num_samples new depths drawn from the bins'
\* piecewise-constant pdf (jittered with draws from key only when
\* randomized), merged with the depths z and sorted; and the points at them.
sample_pdf(key, bins, w, z, num_samples, randomized) ==
  LET rnd == bins.rnd \cup w.rnd \cup z.rnd \cup (IF randomized THEN {key} ELSE {})
      nan == bins.nan \/ w.nan \/ z.nan
  IN [z_vals |-> Arr("z_fine", Len(z.idx) + num_samples, rnd, nan),
      samples |-> Arr("samples_fine", Len(z.idx) + num_samples, rnd, nan)]

(* ------------------------------- state --------------------------------- *)

VARIABLES
  args,      \* FLAGS: the hyperparameters nerf() reads
  built,     \* what nerf() gave: "pending", "model", or the error it raised
  pc,        \* the position of the program
  caller,    \* who called the model: "train" (train_step), "eval", "none"
  ncalls,    \* calls of the model begun so far
  rng_key,   \* train_step's rng_key (main's keys)
  state,     \* TrainState: step, and the parameters' version
  key_0,     \* the caller's first key argument
  key_1,     \* the caller's second key argument
  a,         \* the locals of NerfModel.apply
  uses,      \* log: every key split or handed to a stochastic op, this call
  trace,     \* log: the model_utils operations invoked, this call
  pdf_in,    \* log: the arguments of the call's sample_pdf
  mlp_in,    \* log: the arguments of the call's MLP invocations
  out,       \* train_step's loss_fn result: ret, loss, loss_c, stats
  prev,      \* log: the previous completed call (inputs and ret)
  FLAGS,     \* main's flags: max_steps, save_every, render_every, print_every
  restored,  \* the step of the state restore_checkpoint finds in train_dir
  nbatches,  \* the batches the training dataset supplies to a host
  host,      \* per host: main's position, loop step, state.step, logs
  train_dir  \* log: every save_checkpoint call (host, step label, place)

\* The variables of main.
mainvars == <<FLAGS, restored, nbatches, host, train_dir>>

\* The variables of the model's construction and calls.
pipevars == <<args, built, pc, caller, ncalls, rng_key, state, key_0, key_1, a,
              uses, trace, pdf_in, mlp_in, out, prev>>

vars == <<pipevars, mainvars>>

\* The hosts of a multi-host run; jax.host_id() is 0 on the first.
Hosts == {0, 1}

\* main's flags outside a run of main.
NoFlags == [max_steps |-> 0, save_every |-> 1, render_every |-> 0, print_every |-> 1]

\* A host before main starts.
NoHost == [pc |-> "start", step |-> 0, state_step |-> 0, left |-> 0,
           test_idx |-> 0, coll |-> <<>>, logged |-> {}]

\* A view direction: a 3-vector over a denominator, and whether the division
\* that made it gave NaN.
ViewDir(vec, den, nan) == [src |-> "viewdirs", vec |-> vec, den |-> den, nan |-> nan]

\* apply's locals before the call.
NoFrame ==
  [rng_0 |-> NoKey, rng_1 |-> NoKey, key |-> NoKey, rays_in |-> <<>>, rays |-> <<>>,
   viewdirs |-> ViewDir(<<0, 0, 0>>, 1, FALSE),
   z_vals |-> Undefined, samples |-> Undefined,
   raw_rgb |-> Undefined, raw_sigma |-> Undefined,
   rgb |-> Undefined, sigma |-> Undefined,
   weights |-> Undefined, unused_weights |-> Undefined, ret |-> <<>>]

NoPdf == [called |-> FALSE, key |-> NoKey, bins |-> <<>>, weights |-> <<>>,
          weights_src |-> "", z_vals |-> <<>>, num_samples |-> 0]

\* No rendered value.
NoTerm == [out |-> "", z |-> "", n |-> 0, rnd |-> {}, nan |-> FALSE]

\* The mean squared error of a rendered colour against the batch's pixels.
Mse(rgb) == [zero |-> FALSE, of |-> rgb]

\* The constant 0.
ZeroLoss == [zero |-> TRUE, of |-> NoTerm]

NoOut == [rng_key |-> NoKey, raised |-> FALSE, loss |-> ZeroLoss,
          loss_c |-> ZeroLoss, stats |-> <<>>, total |-> <<>>]

NoCall == [done |-> FALSE, rays |-> <<>>, params |-> 0, key_0 |-> NoKey,
           key_1 |-> NoKey, ret |-> <<>>]

\* Largest max_steps (and restored step, and dataset size) explored.
MaxSteps == 3
\* Largest save_every, render_every and print_every explored.
MaxEvery == 2

\* The network configuration of an MLP call that passes none: every
\* parameter is left at the MLP's own default.  A parameter's value is given
\* relative to that default: "default", or "other" for any other value.
DefaultNet ==
  [net_depth |-> "default", net_width |-> "default",
   net_depth_condition |-> "default", net_width_condition |-> "default",
   net_activation |-> "default", skip_layer |-> "default",
   num_rgb_channels |-> "default", num_sigma_channels |-> "default"]

\* The network configurations explored: the defaults, and a narrower or a
\* shallower network.
NetSet ==
  {DefaultNet, [DefaultNet EXCEPT !.net_width = "other"],
   [DefaultNet EXCEPT !.net_depth = "other", !.skip_layer = "other"]}

\* The configurations explored.
ArgSet ==
  {r @@ DefaultNet :
     r \in [num_coarse_samples : 1..MaxCoarse, num_fine_samples : 0..MaxFine,
            use_viewdirs : BOOLEAN, randomized : BOOLEAN, noise_std : {1},
            rgb_activation : Activations, sigma_activation : Activations]}

\* The configurations explored for the network's configuration: activations
\* that pass nerf()'s checks, and every network of NetSet.
NetArgSet ==
  {r @@ n :
     r \in [num_coarse_samples : {MaxCoarse}, num_fine_samples : 0..MaxFine,
            use_viewdirs : BOOLEAN, randomized : {FALSE}, noise_std : {1},
            rgb_activation : {"sigmoid"}, sigma_activation : {"relu"}],
     n \in NetSet}

Init ==
  /\ args \in ArgSet
  /\ built = "pending"
  /\ pc = "nerf"
  /\ caller = "none"
  /\ ncalls = 0
  /\ rng_key = PRNGKey(0)
  /\ state = [step |-> 0, params |-> 0]
  /\ key_0 = NoKey
  /\ key_1 = NoKey
  /\ a = NoFrame
  /\ uses = <<>>
  /\ trace = <<>>
  /\ pdf_in = NoPdf
  /\ mlp_in = <<>>
  /\ out = NoOut
  /\ prev = NoCall
  /\ FLAGS = NoFlags
  /\ restored = 0
  /\ nbatches = 0
  /\ host = [h \in Hosts |-> NoHost]
  /\ train_dir = {}

(* ------------------------- nerf(): construction ------------------------ *)

\* RgbOutOfRange without its upper bound: only negative colours are refused.
RgbOnlyNegative(name) == \E x \in ProbeX : Activation(name, x) < 0

\* jnp.any(rgb < 0) or jnp.any(rgb > 1), over the probe.
RgbOutOfRange(name) ==
  \/ \E x \in ProbeX : Activation(name, x) < 0
  \/ \E x \in ProbeX : Activation(name, x) > 1000

\* jnp.any(sigma < 0), over the probe.
SigmaNegative(name) == \E x \in ProbeX : Activation(name, x) < 0

\* nerf(key, args): the error it raises, or "model" when it returns one.
nerf(ar) ==
  IF RgbOutOfRange(ar.rgb_activation) THEN "rgb_activation_error"
  ELSE IF SigmaNegative(ar.sigma_activation) THEN "sigma_activation_error"
  ELSE "model"

Nerf ==
  /\ pc = "nerf"
  /\ built' = nerf(args)
  /\ pc' = IF nerf(args) = "model" THEN "idle" ELSE "raised"
  /\ UNCHANGED <<args, caller, ncalls, rng_key, state, key_0, key_1, a, uses,
                 trace, pdf_in, mlp_in, out, prev>>
  /\ UNCHANGED mainvars

(* ------------------------------ callers -------------------------------- *)

\* rng_key, key_0, key_1 = random.split(rng_key, 3)
TrainStepSplit(k) ==
  [rng_key |-> Split(k, 3)[1], key_0 |-> Split(k, 3)[2], key_1 |-> Split(k, 3)[3]]

\* model(key_0, key_1, *rays): apply's locals on entry.
Enter(k0, k1, rays) ==
  [NoFrame EXCEPT !.rng_0 = k0, !.rng_1 = k1, !.rays_in = rays, !.rays = rays]

\* train_step up to the call of the model in loss_fn.
TrainStep(rays) ==
  /\ pc = "idle"
  /\ ncalls < MaxCalls
  /\ LET ks == TrainStepSplit(rng_key)
     IN /\ key_0' = ks.key_0
        /\ key_1' = ks.key_1
        /\ out' = [NoOut EXCEPT !.rng_key = ks.rng_key]
        /\ a' = Enter(ks.key_0, ks.key_1, rays)
  /\ uses' = <<[op |-> "split", key |-> rng_key]>>
  /\ caller' = "train"
  /\ ncalls' = ncalls + 1
  /\ trace' = <<>>
  /\ pdf_in' = NoPdf
  /\ mlp_in' = <<>>
  /\ pc' = "coarse_sample"
  /\ UNCHANGED <<args, built, rng_key, state, prev>>
  /\ UNCHANGED mainvars

\* test_render_fn: the model called with the keys render_image hands it.
TestRender(k0, k1, rays) ==
  /\ pc = "idle"
  /\ ncalls < MaxCalls
  /\ key_0' = k0
  /\ key_1' = k1
  /\ out' = NoOut
  /\ a' = Enter(k0, k1, rays)
  /\ uses' = <<>>
  /\ caller' = "eval"
  /\ ncalls' = ncalls + 1
  /\ trace' = <<>>
  /\ pdf_in' = NoPdf
  /\ mlp_in' = <<>>
  /\ pc' = "coarse_sample"
  /\ UNCHANGED <<args, built, rng_key, state, prev>>
  /\ UNCHANGED mainvars

(* --------------------------- NerfModel.apply --------------------------- *)

\* What a step of apply leaves alone.
outer == <<args, built, caller, ncalls, rng_key, state, key_0, key_1, out, prev,
           mainvars>>

\* The viewdirs split off a ray array: its last 3 columns when it is wider
\* than 6 (and the rays lose them), its columns 3:6 otherwise.
ExtractViewdirs(rays) ==
  IF Len(rays) > 6
    THEN [viewdirs |-> PySliceFrom(rays, -3), rays |-> PySlice(rays, 0, -3)]
    ELSE [viewdirs |-> PySlice(rays, 3, 6), rays |-> rays]

\* SplitKey that keeps the key it split as the next one to split.
SplitKeyStale(rng) == [key |-> Split2(rng)[1], rng |-> rng]

\* key, rng = random.split(rng)
SplitKey(rng) == [key |-> Split2(rng)[1], rng |-> Split2(rng)[2]]

\* The log of a split of rng followed by a stochastic operation on its key.
Used(rng, op) ==
  <<[op |-> "split", key |-> rng], [op |-> op, key |-> SplitKey(rng).key]>>

\* jnp.linalg.norm of an integer vector whose norm is an integer.
Norm(vec) ==
  LET sq == vec[1] * vec[1] + vec[2] * vec[2] + vec[3] * vec[3]
  IN CHOOSE r \in 0..sq : r * r = sq

\* viewdirs / norms: every component of a zero vector over its zero norm
\* is 0/0, NaN.
Normalize(v) == [v EXCEPT !.den = Norm(v.vec), !.nan = (Norm(v.vec) = 0)]

\* rgb_activation(raw_rgb), sigma_activation(raw_sigma): elementwise.
Activate(name, raw) == [raw EXCEPT !.src = name \o "(" \o raw.src \o ")"]

\* ApplyNoise that perturbs whatever the randomized flag says.
ApplyNoiseAlways(key, raw_sigma, ar) ==
  add_gaussian_noise(key, raw_sigma, ar.noise_std, TRUE)

\* add_gaussian_noise(key, raw_sigma, noise_std, randomized), as apply calls it.
ApplyNoise(key, raw_sigma, ar) ==
  add_gaussian_noise(key, raw_sigma, ar.noise_std, ar.randomized)

\* (comp_rgb, disp, acc)
Triple(r) == <<r.comp_rgb, r.disp, r.acc>>

\* RunsFineStage that also runs the fine stage for no fine samples.
RunsFineStageAlways(num_fine_samples) == num_fine_samples >= 0

\* if num_fine_samples > 0
RunsFineStage(num_fine_samples) == num_fine_samples > 0

\* z_vals_mid = .5 * (z_vals[..., 1:] + z_vals[..., :-1])
Midpoints(z) ==
  LET hi == PySliceFrom(z.idx, 1)
      lo == PySlice(z.idx, 0, -1)
  IN [z EXCEPT !.src = "z_vals_mid",
               !.idx = [k \in 1..Min(Len(lo), Len(hi)) |-> <<lo[k], hi[k]>>]]

\* InteriorWeights that keeps the last weight: weights[..., 1:].
WeightsFromSecond(w) == [w EXCEPT !.idx = PySliceFrom(w.idx, 1)]

\* weights[..., 1:-1]
InteriorWeights(w) == [w EXCEPT !.idx = PySlice(w.idx, 1, -1)]

\* SamplePdfWeights that takes the fine rendering's weights.
SamplePdfFineWeights(f) == InteriorWeights(f.unused_weights)

\* The weights the fine stage hands to sample_pdf.
SamplePdfWeights(f) == InteriorWeights(f.weights)

\* The network configuration the coarse stage's MLP call passes: args'.
CoarseNet(ar) ==
  [net_depth |-> ar.net_depth, net_width |-> ar.net_width,
   net_depth_condition |-> ar.net_depth_condition,
   net_width_condition |-> ar.net_width_condition,
   net_activation |-> ar.net_activation, skip_layer |-> ar.skip_layer,
   num_rgb_channels |-> ar.num_rgb_channels,
   num_sigma_channels |-> ar.num_sigma_channels]

\* The network configuration of the fine stage's MLP call, which passes
\* only the samples (and viewdirs): the MLP's defaults.
FineNet(ar) == DefaultNet

\* Lines 74-85: viewdirs, stratified sampling, encoding of the samples.
ApplyCoarseSample ==
  /\ pc = "coarse_sample"
  /\ LET e == ExtractViewdirs(a.rays)
         k == SplitKey(a.rng_0)
         r == sample_along_rays(k.key, e.rays, args.num_coarse_samples, args.randomized)
     IN a' = [a EXCEPT !.rays = e.rays, !.viewdirs = ViewDir(e.viewdirs, 1, FALSE),
                       !.key = k.key, !.rng_0 = k.rng,
                       !.z_vals = r.z_vals, !.samples = posenc(r.samples)]
  /\ uses' = uses \o Used(a.rng_0, "sample_along_rays")
  /\ trace' = Append(trace, "sample_along_rays")
  /\ pc' = "coarse_mlp"
  /\ UNCHANGED <<pdf_in, mlp_in>>
  /\ UNCHANGED outer

\* Lines 87-114: the radiance field on the coarse samples.
ApplyCoarseMLP ==
  /\ pc = "coarse_mlp"
  /\ LET vd == IF args.use_viewdirs THEN posenc(Normalize(a.viewdirs)) ELSE a.viewdirs
         raw == MLP(a.samples, args.use_viewdirs, vd)
     IN /\ a' = [a EXCEPT !.viewdirs = vd, !.raw_rgb = raw.raw_rgb,
                          !.raw_sigma = raw.raw_sigma]
        /\ mlp_in' = Append(mlp_in, [samples |-> a.samples.src,
                                     given |-> args.use_viewdirs,
                                     viewdirs |-> vd, net |-> CoarseNet(args)])
  /\ trace' = Append(trace, "MLP")
  /\ pc' = "coarse_noise"
  /\ UNCHANGED <<uses, pdf_in>>
  /\ UNCHANGED outer

\* Lines 116-120: density noise, activations.
ApplyCoarseNoise ==
  /\ pc = "coarse_noise"
  /\ LET k == SplitKey(a.rng_0)
         noisy == ApplyNoise(k.key, a.raw_sigma, args)
     IN a' = [a EXCEPT !.key = k.key, !.rng_0 = k.rng, !.raw_sigma = noisy,
                       !.rgb = Activate(args.rgb_activation, a.raw_rgb),
                       !.sigma = Activate(args.sigma_activation, noisy)]
  /\ uses' = uses \o Used(a.rng_0, "add_gaussian_noise")
  /\ trace' = Append(trace, "add_gaussian_noise")
  /\ pc' = "coarse_render"
  /\ UNCHANGED <<pdf_in, mlp_in>>
  /\ UNCHANGED outer

\* Lines 122-131: the coarse rendering; ret = [(comp_rgb, disp, acc)].
ApplyCoarseRender ==
  /\ pc = "coarse_render"
  /\ LET r == volumetric_rendering(a.rgb, a.sigma, a.z_vals)
     IN a' = [a EXCEPT !.weights = r.weights, !.ret = <<Triple(r)>>]
  /\ trace' = Append(trace, "volumetric_rendering")
  /\ pc' = "coarse_done"
  /\ UNCHANGED <<uses, pdf_in, mlp_in>>
  /\ UNCHANGED outer

\* Lines 133-145: hierarchical sampling from the coarse weights.
ApplyFineSample ==
  /\ pc = "coarse_done"
  /\ RunsFineStage(args.num_fine_samples)
  /\ LET z_vals_mid == Midpoints(a.z_vals)
         k == SplitKey(a.rng_1)
         w == SamplePdfWeights(a)
         r == sample_pdf(k.key, z_vals_mid, w, a.z_vals, args.num_fine_samples,
                         args.randomized)
     IN /\ pdf_in' = [called |-> TRUE, key |-> k.key, bins |-> z_vals_mid.idx,
                      weights |-> w.idx, weights_src |-> w.src,
                      z_vals |-> a.z_vals.idx,
                      num_samples |-> args.num_fine_samples]
        /\ a' = [a EXCEPT !.key = k.key, !.rng_1 = k.rng,
                          !.z_vals = r.z_vals, !.samples = posenc(r.samples)]
  /\ uses' = uses \o Used(a.rng_1, "sample_pdf")
  /\ trace' = Append(trace, "sample_pdf")
  /\ pc' = "fine_mlp"
  /\ UNCHANGED mlp_in
  /\ UNCHANGED outer

\* Lines 146-149: the radiance field on the fine samples.
ApplyFineMLP ==
  /\ pc = "fine_mlp"
  /\ LET raw == MLP(a.samples, args.use_viewdirs, a.viewdirs)
     IN /\ a' = [a EXCEPT !.raw_rgb = raw.raw_rgb, !.raw_sigma = raw.raw_sigma]
        /\ mlp_in' = Append(mlp_in, [samples |-> a.samples.src,
                                     given |-> args.use_viewdirs,
                                     viewdirs |-> a.viewdirs, net |-> FineNet(args)])
  /\ trace' = Append(trace, "MLP")
  /\ pc' = "fine_noise"
  /\ UNCHANGED <<uses, pdf_in>>
  /\ UNCHANGED outer

\* Lines 150-154: density noise, activations.
ApplyFineNoise ==
  /\ pc = "fine_noise"
  /\ LET k == SplitKey(a.rng_1)
         noisy == ApplyNoise(k.key, a.raw_sigma, args)
     IN a' = [a EXCEPT !.key = k.key, !.rng_1 = k.rng, !.raw_sigma = noisy,
                       !.rgb = Activate(args.rgb_activation, a.raw_rgb),
                       !.sigma = Activate(args.sigma_activation, noisy)]
  /\ uses' = uses \o Used(a.rng_1, "add_gaussian_noise")
  /\ trace' = Append(trace, "add_gaussian_noise")
  /\ pc' = "fine_render"
  /\ UNCHANGED <<pdf_in, mlp_in>>
  /\ UNCHANGED outer

\* Lines 155-162: the fine rendering, appended to ret.
ApplyFineRender ==
  /\ pc = "fine_render"
  /\ LET r == volumetric_rendering(a.rgb, a.sigma, a.z_vals)
     IN a' = [a EXCEPT !.unused_weights = r.weights, !.ret = Append(a.ret, Triple(r))]
  /\ trace' = Append(trace, "volumetric_rendering")
  /\ pc' = "fine_done"
  /\ UNCHANGED <<uses, pdf_in, mlp_in>>
  /\ UNCHANGED outer

\* Line 163: return ret.
ApplyReturn ==
  /\ \/ pc = "coarse_done" /\ ~RunsFineStage(args.num_fine_samples)
     \/ pc = "fine_done"
  /\ pc' = IF caller = "train" THEN "loss_fn" ELSE "rendered"
  /\ UNCHANGED <<a, uses, trace, pdf_in, mlp_in>>
  /\ UNCHANGED outer

(* ------------------------------ train_step ----------------------------- *)

\* s[i] for a python index i (negative: counted from the end).
PyIndex(s, i) == IF i < 0 THEN s[Len(s) + i + 1] ELSE s[i + 1]

\* loss_fn's result for the ret the model returned (lines 65-84).
loss_fn(ret) ==
  IF Len(ret) \notin {1, 2}
    THEN [raised |-> TRUE, loss |-> ZeroLoss, loss_c |-> ZeroLoss,
          stats |-> <<>>, total |-> <<>>]
    ELSE LET loss == Mse(PyIndex(ret, -1)[1])
             loss_c == IF Len(ret) > 1 THEN Mse(PyIndex(ret, 0)[1]) ELSE ZeroLoss
         IN [raised |-> FALSE, loss |-> loss, loss_c |-> loss_c,
             stats |-> IF Len(ret) > 1 THEN <<loss, loss_c>> ELSE <<loss>>,
             total |-> <<loss, loss_c>>]

\* TrainStepNewStep that leaves the step counter as it was.
TrainStepSameStep(step) == step

\* step=step + 1 of the new state (lines 93-94).
TrainStepNewStep(step) == step + 1

\* The record of a completed call.
Call(f, k0, k1, params) ==
  [done |-> TRUE, rays |-> f.rays_in, params |-> params, key_0 |-> k0,
   key_1 |-> k1, ret |-> f.ret]

\* Lines 65-84: the loss of the model's ret.
LossFn ==
  /\ pc = "loss_fn"
  /\ out' = [rng_key |-> out.rng_key] @@ loss_fn(a.ret)
  /\ pc' = IF loss_fn(a.ret).raised THEN "raised" ELSE "train_return"
  /\ UNCHANGED <<args, built, caller, ncalls, rng_key, state, key_0, key_1, a,
                 uses, trace, pdf_in, mlp_in, prev>>
  /\ UNCHANGED mainvars

\* Lines 86-95: the optimizer step; the new state and rng_key are returned.
TrainStepReturn ==
  /\ pc = "train_return"
  /\ state' = [step |-> TrainStepNewStep(state.step), params |-> state.params + 1]
  /\ rng_key' = out.rng_key
  /\ prev' = Call(a, key_0, key_1, state.params)
  /\ caller' = "none"
  /\ pc' = "idle"
  /\ UNCHANGED <<args, built, ncalls, key_0, key_1, a, uses, trace, pdf_in,
                 mlp_in, out>>
  /\ UNCHANGED mainvars

\* test_render_fn returns the model's ret.
TestRenderReturn ==
  /\ pc = "rendered"
  /\ prev' = Call(a, key_0, key_1, state.params)
  /\ caller' = "none"
  /\ pc' = "idle"
  /\ UNCHANGED <<args, built, ncalls, rng_key, state, key_0, key_1, a, uses,
                 trace, pdf_in, mlp_in, out>>
  /\ UNCHANGED mainvars

Next ==
  \/ Nerf
  \/ \E rays \in RaySet : TrainStep(rays)
  \/ \E k0 \in EvalKeys, k1 \in EvalKeys, rays \in RaySet : TestRender(k0, k1, rays)
  \/ ApplyCoarseSample
  \/ ApplyCoarseMLP
  \/ ApplyCoarseNoise
  \/ ApplyCoarseRender
  \/ ApplyFineSample
  \/ ApplyFineMLP
  \/ ApplyFineNoise
  \/ ApplyFineRender
  \/ ApplyReturn
  \/ LossFn
  \/ TrainStepReturn
  \/ TestRenderReturn

Spec == Init /\ [][Next]_vars

\* The same program, started from the configurations of NetArgSet.
InitNet ==
  /\ args \in NetArgSet
  /\ built = "pending"
  /\ pc = "nerf"
  /\ caller = "none"
  /\ ncalls = 0
  /\ rng_key = PRNGKey(0)
  /\ state = [step |-> 0, params |-> 0]
  /\ key_0 = NoKey
  /\ key_1 = NoKey
  /\ a = NoFrame
  /\ uses = <<>>
  /\ trace = <<>>
  /\ pdf_in = NoPdf
  /\ mlp_in = <<>>
  /\ out = NoOut
  /\ prev = NoCall
  /\ FLAGS = NoFlags
  /\ restored = 0
  /\ nbatches = 0
  /\ host = [h \in Hosts |-> NoHost]
  /\ train_dir = {}

SpecNet == InitNet /\ [][Next]_vars

(* ======================= properties of the pipeline ==================== *)

\* apply has returned to its caller.
Returned == pc \in {"loss_fn", "rendered", "train_return"}

\* C1: the model's ret is an ordered list whose first entry is the coarse
\* (rgb, disp, acc); a fine entry follows if and only if num_fine_samples > 0,
\* so ret has 1 or 2 entries; train_step's main loss is that of the last entry
\* and its coarse loss is that of the first entry when there are two, and the
\* constant 0 otherwise.
C1_RetShapeAndLoss ==
  /\ Returned =>
       /\ Len(a.ret) \in {1, 2}
       /\ \A o \in 1..3 : a.ret[1][o].z = "z_coarse"
       /\ (Len(a.ret) = 2) <=> (args.num_fine_samples > 0)
       /\ Len(a.ret) = 2 => \A o \in 1..3 : a.ret[2][o].z = "z_fine"
       /\ \A i \in 1..Len(a.ret) :
            <<a.ret[i][1].out, a.ret[i][2].out, a.ret[i][3].out>> = <<"rgb", "disp", "acc">>
  /\ pc = "train_return" =>
       /\ ~out.raised
       /\ out.loss = [zero |-> FALSE, of |-> a.ret[Len(a.ret)][1]]
       /\ Len(a.ret) = 2 => out.loss_c = [zero |-> FALSE, of |-> a.ret[1][1]]
       /\ Len(a.ret) = 1 => out.loss_c.zero
       /\ Len(out.stats) = Len(a.ret)

\* C1 witness: a train step whose model returned a coarse and a fine entry.
C1_Witness ==
  pc = "train_return" /\ Len(a.ret) = 2 /\ ~out.loss_c.zero /\ out.loss # out.loss_c

\* The keys handed to the stochastic operations (not to split), in order.
StochasticUses == SelectSeq(uses, LAMBDA u : u.op # "split")

\* C2: in a call made by train_step, no key is split or consumed twice: the
\* keys of coarse sampling, coarse noise, fine sampling and fine noise are
\* pairwise different, and key_0, key_1 and the rng_key train_step returns
\* are the three different outputs of one split of rng_key.
C2_KeysNeverReused ==
  caller = "train" =>
    /\ \A i, j \in 1..Len(uses) : i # j => uses[i].key # uses[j].key
    /\ \A u \in 1..Len(uses) : uses[u].key # NoKey
    /\ {key_0, key_1, out.rng_key} = {Split(rng_key, 3)[i] : i \in 1..3}
    /\ Cardinality({key_0, key_1, out.rng_key}) = 3
    /\ (pc = "train_return" /\ args.num_fine_samples > 0) =>
         /\ [i \in 1..4 |-> StochasticUses[i].op] =
              <<"sample_along_rays", "add_gaussian_noise", "sample_pdf",
                "add_gaussian_noise">>
         /\ Cardinality({StochasticUses[i].key : i \in 1..4}) = 4

\* C2 witness: a train step's call with a fine stage has used all its keys.
C2_Witness ==
  /\ caller = "train" /\ pc = "train_return"
  /\ args.num_fine_samples > 0 /\ Len(uses) = 9

\* The positions of an operation in the call's trace.
Positions(op) == {i \in 1..Len(trace) : trace[i] = op}

\* C3: sample_pdf is invoked only after the whole coarse stage, ending with
\* its volumetric_rendering; the weights it takes are the interior of that
\* rendering's weights; and no sampling follows the fine rendering.
C3_CoarseBeforeFine ==
  /\ pdf_in.called =>
       /\ Len(trace) >= 5
       /\ SubSeq(trace, 1, 5) = <<"sample_along_rays", "MLP", "add_gaussian_noise",
                                  "volumetric_rendering", "sample_pdf">>
       /\ pdf_in.weights_src = "weights_z_coarse"
       /\ a.weights.src = "weights_z_coarse"
       /\ pdf_in.weights = PySlice(a.weights.idx, 1, -1)
  /\ ~pdf_in.called => Positions("sample_pdf") = {}
  /\ Cardinality(Positions("sample_pdf")) <= 1
  /\ a.unused_weights.src \in {"undefined", "weights_z_fine"}
  /\ a.unused_weights.src = "weights_z_fine" =>
       /\ Cardinality(Positions("volumetric_rendering")) = 2
       /\ \E last \in Positions("volumetric_rendering") :
            /\ \A j \in Positions("volumetric_rendering") : j <= last
            /\ \A i \in Positions("sample_pdf") \cup Positions("sample_along_rays") :
                 i < last

\* C3 witness: a call whose fine stage has rendered.
C3_Witness == pc = "fine_done" /\ pdf_in.called /\ Len(trace) = 8

\* The probe values of an activation.
Probed(name) == {Activation(name, x) : x \in ProbeX}

\* C4: nerf() returns a model exactly when every probed rgb value is in
\* [0, 1] and every probed sigma value is non-negative; otherwise it raises
\* (the rgb error when both fail) and no model is ever called; once a model
\* is built, no call of it raises.
C4_ValidationAtConstruction ==
  /\ pc = "nerf" => built = "pending" /\ ncalls = 0
  /\ pc # "nerf" =>
       /\ built = "model" <=>
            /\ \A y \in Probed(args.rgb_activation) : 0 <= y /\ y <= 1000
            /\ \A y \in Probed(args.sigma_activation) : 0 <= y
       /\ (\E y \in Probed(args.rgb_activation) : y < 0 \/ y > 1000)
            => built = "rgb_activation_error"
       /\ built \in {"model", "rgb_activation_error", "sigma_activation_error"}
       /\ built # "model" => pc = "raised" /\ ncalls = 0 /\ ~prev.done
       /\ built = "model" => pc # "raised"

\* C4 witness: both probes fail, and nerf() has raised the rgb error.
C4_Witness ==
  /\ pc = "raised" /\ built = "rgb_activation_error"
  /\ args.rgb_activation = "relu" /\ args.sigma_activation = "tanh"

\* Every rendered value of a ret.
Terms(ret) == {ret[i][o] : i \in 1..Len(ret), o \in 1..3}

\* C5: with randomized = False, a call returns the ret the previous call
\* with the same rays and parameters returned, whatever the keys of the two
\* calls, and no key's draws reach any value of ret.
C5_DeterministicWhenNotRandomized ==
  (~args.randomized /\ Returned) =>
    /\ \A t \in Terms(a.ret) : t.rnd = {}
    /\ (prev.done /\ prev.rays = a.rays_in /\ prev.params = state.params)
         => prev.ret = a.ret

\* C5 witness: two calls without randomization, on the same rays and
\* parameters and with different keys, the second through both stages.
C5_Witness ==
  /\ ~args.randomized /\ pc = "rendered" /\ Len(a.ret) = 2
  /\ prev.done /\ prev.rays = a.rays_in /\ prev.params = state.params
  /\ prev.key_0 # key_0 /\ prev.key_1 # key_1

\* C6 (as claimed): with use_viewdirs, no NaN view direction reaches the
\* radiance field, in the coarse or in the fine stage.
C6_NoNaNViewdirs ==
  \A i \in 1..Len(mlp_in) : mlp_in[i].given => ~mlp_in[i].viewdirs.nan

\* C7 (as claimed): sample_pdf is handed N-1 midpoints, N-2 weights and the
\* N coarse depths, the weights one fewer than the midpoints, for every N.
C7_Original ==
  pdf_in.called =>
    /\ Len(pdf_in.bins) = args.num_coarse_samples - 1
    /\ Len(pdf_in.weights) = args.num_coarse_samples - 2
    /\ Len(pdf_in.z_vals) = args.num_coarse_samples
    /\ Len(pdf_in.weights) = Len(pdf_in.bins) - 1

\* C7 (amended): sample_pdf is handed the N-1 midpoints of consecutive
\* coarse depths, the interior coarse weights and the N coarse depths; for
\* N >= 2 these are N-2 weights, one fewer than the midpoints; for N = 1
\* there are no midpoints and no weights.
C7_MidpointsAndInteriorWeights ==
  pdf_in.called =>
    LET N == args.num_coarse_samples
    IN /\ pdf_in.z_vals = [i \in 1..N |-> i]
       /\ pdf_in.bins = [i \in 1..(N - 1) |-> <<i, i + 1>>]
       /\ pdf_in.weights = [i \in 1..(N - 2) |-> i + 1]
       /\ pdf_in.weights_src = "weights_z_coarse"
       /\ N >= 2 => /\ Len(pdf_in.weights) = N - 2
                    /\ Len(pdf_in.weights) = Len(pdf_in.bins) - 1
       /\ N = 1 => Len(pdf_in.bins) = 0 /\ Len(pdf_in.weights) = 0

\* C7 witness: the fine stage has sampled from 3 coarse depths.
C7_Witness ==
  /\ pdf_in.called /\ args.num_coarse_samples = 3
  /\ Len(pdf_in.bins) = 2 /\ Len(pdf_in.weights) = 1

(* ================================ main ================================= *)

\* The runs of main explored.
FlagSet ==
  [max_steps : 1..MaxSteps, save_every : 1..MaxEvery,
   render_every : 0..MaxEvery, print_every : 1..MaxEvery]

InitMain ==
  /\ args = [num_coarse_samples |-> 1, num_fine_samples |-> 0,
             use_viewdirs |-> FALSE, randomized |-> FALSE, noise_std |-> 1,
             rgb_activation |-> "sigmoid", sigma_activation |-> "relu"]
            @@ DefaultNet
  /\ built = "model"
  /\ pc = "main"
  /\ caller = "none"
  /\ ncalls = 0
  /\ rng_key = PRNGKey(0)
  /\ state = [step |-> 0, params |-> 0]
  /\ key_0 = NoKey
  /\ key_1 = NoKey
  /\ a = NoFrame
  /\ uses = <<>>
  /\ trace = <<>>
  /\ pdf_in = NoPdf
  /\ mlp_in = <<>>
  /\ out = NoOut
  /\ prev = NoCall
  /\ FLAGS \in FlagSet
  /\ restored \in 0..MaxSteps
  /\ nbatches \in 0..MaxSteps
  /\ host = [h \in Hosts |-> NoHost]
  /\ train_dir = {}

\* EntersRender that renders on host 0 only.
EntersRenderOnHost0(h, step) ==
  h = 0 /\ FLAGS.render_every > 0 /\ step % FLAGS.render_every = 0

\* if FLAGS.render_every > 0 and step % FLAGS.render_every == 0, on host h.
EntersRender(h, step) ==
  FLAGS.render_every > 0 /\ step % FLAGS.render_every = 0

\* checkpoints.save_checkpoint(train_dir, state, step label, keep=100) by h.
SaveCheckpoint(h, label, at) ==
  train_dir \cup {[host |-> h, step |-> label, at |-> at, loop_step |-> host[h].step]}

\* Lines 127-133: the restored state, offset = state.step + 1.
MainRestore(h) ==
  /\ host[h].pc = "start"
  /\ host' = [host EXCEPT ![h] = [@ EXCEPT !.pc = "zip", !.state_step = restored,
                                            !.step = restored + 1, !.left = nbatches]]
  /\ UNCHANGED <<FLAGS, restored, nbatches, train_dir>>
  /\ UNCHANGED pipevars

\* Lines 156-160: zip yields a step and a batch; ptrain_step.
LoopTrain(h) ==
  /\ host[h].pc = "zip"
  /\ host[h].step <= FLAGS.max_steps
  /\ host[h].left > 0
  /\ host' = [host EXCEPT ![h] =
       [@ EXCEPT !.pc = "render", !.left = @ - 1,
                 !.state_step = TrainStepNewStep(@),
                 !.coll = Append(@, <<"train", host[h].step>>)]]
  /\ UNCHANGED <<FLAGS, restored, nbatches, train_dir>>
  /\ UNCHANGED pipevars

\* Line 156: zip ends when the range or the dataset is exhausted.
LoopExit(h) ==
  /\ host[h].pc = "zip"
  /\ host[h].step > FLAGS.max_steps \/ host[h].left = 0
  /\ host' = [host EXCEPT ![h] = [@ EXCEPT !.pc = "final"]]
  /\ UNCHANGED <<FLAGS, restored, nbatches, train_dir>>
  /\ UNCHANGED pipevars

\* Lines 167-189: the test rendering, recorded by host 0; the other hosts
\* continue with the next step.
LoopRender(h) ==
  /\ host[h].pc = "render"
  /\ LET step == host[h].step
         enters == EntersRender(h, step)
     IN host' = [host EXCEPT ![h] =
          [@ EXCEPT !.test_idx = IF enters THEN @ + 1 ELSE @,
                    !.coll = IF enters THEN Append(@, <<"render", step>>) ELSE @,
                    !.logged = IF enters /\ h = 0 THEN @ \cup {<<"test_psnr", step>>}
                               ELSE @,
                    !.pc = IF h # 0 THEN "zip" ELSE "log",
                    !.step = IF h # 0 THEN step + 1 ELSE step]]
  /\ UNCHANGED <<FLAGS, restored, nbatches, train_dir>>
  /\ UNCHANGED pipevars

\* Lines 190-215: host 0's training summaries, prints and checkpoint.
LoopLog(h) ==
  /\ host[h].pc = "log"
  /\ LET step == host[h].step
     IN /\ host' = [host EXCEPT ![h] =
             [@ EXCEPT !.logged = IF step % FLAGS.print_every = 0
                                    THEN @ \cup {<<"train_loss", step>>} ELSE @,
                       !.pc = "zip", !.step = step + 1]]
        /\ train_dir' = IF step % FLAGS.save_every = 0
                          THEN SaveCheckpoint(h, host[h].state_step, "loop")
                          ELSE train_dir
  /\ UNCHANGED <<FLAGS, restored, nbatches>>
  /\ UNCHANGED pipevars

\* Lines 218-221: the save after the loop.
FinalSave(h) ==
  /\ host[h].pc = "final"
  /\ train_dir' = IF FLAGS.max_steps % FLAGS.save_every # 0
                    THEN SaveCheckpoint(h, host[h].state_step, "final")
                    ELSE train_dir
  /\ host' = [host EXCEPT ![h] = [@ EXCEPT !.pc = "done"]]
  /\ UNCHANGED <<FLAGS, restored, nbatches>>
  /\ UNCHANGED pipevars

NextMain ==
  \E h \in Hosts :
    \/ MainRestore(h)
    \/ LoopTrain(h)
    \/ LoopExit(h)
    \/ LoopRender(h)
    \/ LoopLog(h)
    \/ FinalSave(h)

SpecMain == InitMain /\ [][NextMain]_vars

(* ========================= properties of main ========================== *)

\* The steps of the collectives of one kind that host h has entered, in order.
Entered(h, kind) ==
  LET c == SelectSeq(host[h].coll, LAMBDA e : e[1] = kind)
  IN [i \in 1..Len(c) |-> c[i][2]]

\* The elements of a sequence.
Range(s) == {s[i] : i \in 1..Len(s)}

\* The loop steps whose rendering decision host h has taken.
Decided(h) ==
  Range(Entered(h, "train")) \ (IF host[h].pc = "render" THEN {host[h].step} ELSE {})

\* One sequence is a prefix of the other.
Compatible(s, t) ==
  \A i \in 1..Min(Len(s), Len(t)) : s[i] = t[i]

\* C8: every host renders at exactly the loop steps with render_every > 0
\* and step % render_every = 0 and advances its test dataset once per
\* rendering; only host 0 records anything; and the collectives two hosts
\* have entered agree, so no host waits in one that another host skipped.
C8_AllHostsRender ==
  /\ \A h \in Hosts :
       /\ \A k \in Decided(h) :
            k \in Range(Entered(h, "render")) <=>
              (FLAGS.render_every > 0 /\ k % FLAGS.render_every = 0)
       /\ Range(Entered(h, "render")) \subseteq Decided(h)
       /\ host[h].test_idx = Len(Entered(h, "render"))
       /\ host[h].logged # {} => h = 0
  /\ {e[2] : e \in {l \in host[0].logged : l[1] = "test_psnr"}}
       = Range(Entered(0, "render"))
  /\ \A h1, h2 \in Hosts : Compatible(host[h1].coll, host[h2].coll)

\* C8 witness: host 1 and host 0 have rendered at the same step, and only
\* host 0 has recorded it.
C8_Witness ==
  /\ Len(Entered(1, "render")) > 0
  /\ Entered(1, "render") = Entered(0, "render")
  /\ host[1].logged = {} /\ host[0].logged # {}
  /\ host[1].test_idx > 0

\* The state main restores is short of max_steps and the dataset supplies a
\* batch for every remaining step.
RestoredShortAndEnoughBatches ==
  restored < FLAGS.max_steps /\ nbatches >= FLAGS.max_steps - restored

\* C9: when the restored step s is below max_steps and the batches suffice,
\* every host's loop runs the steps s+1..max_steps in order, the state's
\* step equals the loop step after each train_step, every checkpoint written
\* in the loop is labelled with its loop step, a multiple of save_every, and
\* once host 0 is done it has written a checkpoint labelled max_steps (in
\* the loop if save_every divides max_steps, after it otherwise).
C9_StepsAndCheckpoints ==
  RestoredShortAndEnoughBatches =>
    /\ \A h \in Hosts :
         /\ \A i \in 1..Len(Entered(h, "train")) : Entered(h, "train")[i] = restored + i
         /\ host[h].pc \in {"render", "log"} => host[h].state_step = host[h].step
         /\ host[h].pc \in {"final", "done"} =>
              /\ Len(Entered(h, "train")) = FLAGS.max_steps - restored
              /\ host[h].state_step = FLAGS.max_steps
    /\ \A c \in train_dir :
         c.at = "loop" =>
           /\ c.step % FLAGS.save_every = 0
           /\ c.step = c.loop_step
           /\ c.step \in (restored + 1)..FLAGS.max_steps
    /\ host[0].pc = "done" =>
         \E c \in train_dir :
           /\ c.host = 0
           /\ c.step = FLAGS.max_steps
           /\ c.at = IF FLAGS.max_steps % FLAGS.save_every = 0 THEN "loop" ELSE "final"

\* C9 witness: host 0 is done after resuming from a checkpoint and more
\* than one step, max_steps not a multiple of save_every.
C9_Witness ==
  /\ RestoredShortAndEnoughBatches /\ restored > 0
  /\ host[0].pc = "done" /\ Len(Entered(0, "train")) > 1
  /\ FLAGS.max_steps % FLAGS.save_every # 0
  /\ \E c \in train_dir : c.host = 0 /\ c.at = "final" /\ c.step = FLAGS.max_steps

\* C10 (as claimed): only host 0 ever calls save_checkpoint.
C10_OnlyHost0Saves == \A c \in train_dir : c.host = 0

(* =================== properties of the network calls =================== *)

\* C11 (as claimed): the fine stage's MLP call is made with the network
\* configuration of the coarse stage's call and, with use_viewdirs, with the
\* same encoded, normalised view directions, for every configuration.
C11_FineNetAsCoarse ==
  Len(mlp_in) = 2 =>
    /\ mlp_in[2].net = mlp_in[1].net
    /\ mlp_in[2].given = mlp_in[1].given
    /\ mlp_in[2].given => mlp_in[2].viewdirs = mlp_in[1].viewdirs

\* The part of C11 the code keeps: both calls get the same view directions.
C11_SameViewdirs ==
  Len(mlp_in) = 2 =>
    /\ mlp_in[2].given = mlp_in[1].given
    /\ mlp_in[2].given => mlp_in[2].viewdirs = mlp_in[1].viewdirs

====
